---------------------------- MODULE Spec2Model ----------------------------
(***************************************************************************)
(* A model of package gocmdcache (src/gocmdcache.go): a two-level cache    *)
(* (memory, then disk, then the "go" command) of "go list" and "go build"  *)
(* results, guarded by a token file that records the two hashes the disk   *)
(* cache was built for.                                                     *)
(*                                                                         *)
(* Strings and file contents are sequences of tokens (each token a TLA+    *)
(* string: a character or a word), so that TrimSpace, ReplaceAll, Sprintf  *)
(* and Sscanf are computed as the code computes them.  The cache root is   *)
(* one directory; a file is named by its path below the root.              *)
(***************************************************************************)
EXTENDS Integers, Sequences, FiniteSets, TLC

VARIABLES
    rootExists,   \* the directory c.root exists on disk
    files,        \* file name -> [e: the file exists, d: its content]
    c,            \* the Cache object of the running process
    live,         \* Make has returned that Cache without error
    pc,           \* thread -> its position in the code
    L,            \* thread -> its call frame (arguments, locals, results)
    faults,       \* I/O and command failures the environment may still produce
    h             \* history of the calls made so far (read by the properties only)

vars == <<rootExists, files, c, live, pc, L, faults, h>>

----------------------------------------------------------------------------
(* Bounds *)

MaxFaults == 1
MaxMakes == 2
MaxSeeds == 1

Threads == {1, 2}

(* Directory (package) names given to GoList and PkgSize. *)
unsafe == <<"unsafe">>
io == <<"io">>
Dirs == {unsafe, io}
(* GoList treats all names alike: the model calls it with one. *)
ListDirs == {io}
(* Two names that differ in one character, a path separator. *)
PathDirs == { <<"a", "/", "b">>, <<"a", "%", "b">> }
AllDirs == Dirs \cup PathDirs

(* Hashes given to Make: an ordinary pair, the pair of empty hashes, and   *)
(* two pairs whose hashes hold a blank.                                    *)
HashPairs ==
    { <<<<"y">>, <<"d">>>>,
      <<<<>>, <<>>>>,
      <<<<"x">>, <<"d", " ", "e">>>>,
      <<<<"x", " ", "d">>, <<"e">>>> }

----------------------------------------------------------------------------
(* Strings *)

IsSpace(ch) == ch \in {" ", "\n", "\t"}

RECURSIVE TrimLeft(_)
TrimLeft(s) ==
    IF s # <<>> /\ IsSpace(Head(s)) THEN TrimLeft(Tail(s)) ELSE s

RECURSIVE TrimRight(_)
TrimRight(s) ==
    IF s # <<>> /\ IsSpace(s[Len(s)])
    THEN TrimRight(SubSeq(s, 1, Len(s) - 1))
    ELSE s

(* strings.TrimSpace *)
TrimSpace(s) == TrimRight(TrimLeft(s))

(* strings.ReplaceAll(s, old, new) for one-character old and new *)
ReplaceAll(s, old, new) ==
    [i \in 1..Len(s) |-> IF s[i] = old THEN new ELSE s[i]]

----------------------------------------------------------------------------
(* Files *)

glopath == <<"=glo=">>

(* Cache.cachePath: the name of the file below c.root *)
cachePath(dir, tag) == ReplaceAll(dir, "/", "%") \o <<".", tag>>

Tags == {"list", "build", "archive"}

FileNames == {glopath} \cup {cachePath(d, tag) : d \in AllDirs, tag \in Tags}

NoFile == [e |-> FALSE, d |-> <<>>]
File(data) == [e |-> TRUE, d |-> data]

(* The "%s %s\n" that writeToken prints *)
TokenText(repohash, goroothash) == repohash \o <<" ">> \o goroothash \o <<"\n">>

(* The string checkValid compares the trimmed token with *)
WantToken(repohash, goroothash) == repohash \o <<" ">> \o goroothash

----------------------------------------------------------------------------
(* The "go" command *)

(* The bytes "go list -json dir" prints: a JSON object for the package. *)
GoListOutput(dir) == <<"{">> \o dir \o <<"}">>

NoPkg == <<"<nil>">>

(* json.Unmarshal(out, &pkg): ok with the package named between the        *)
(* braces (blanks between tokens are not significant), or an error.        *)
Unmarshal(out) ==
    LET toks == SelectSeq(out, LAMBDA x : ~IsSpace(x))
        n == Len(toks)
    IN  IF /\ n >= 3 /\ toks[1] = "{" /\ toks[n] = "}"
           /\ \A i \in 2..(n - 1) : toks[i] \notin {"{", "}"}
        THEN [ok |-> TRUE, pkg |-> SubSeq(toks, 2, n - 1)]
        ELSE [ok |-> FALSE, pkg |-> NoPkg]

(* The archive "go build -o outfile dir" writes. *)
BuildArchive(dir) == <<"!<arch>">> \o dir \o <<"T", "T", "D">>

(* fi.Size() of os.Stat *)
StatSize(data) == Len(data)

(* "go tool nm": one line per symbol of the archive, as fields *)
NmOutput(data) ==
    [i \in 1..Len(data) |->
        IF data[i] = "T" THEN <<"1000", "T", "f">>
        ELSE IF data[i] = "D" THEN <<"2000", "D", "v">>
        ELSE <<data[i]>>]

RECURSIVE CountFuncs(_)
CountFuncs(lines) ==
    IF lines = <<>> THEN 0
    ELSE LET m == Head(lines)
             hit == \/ Len(m) = 3 /\ m[2] = "T"
                    \/ Len(m) = 4 /\ m[3] = "T"
         IN  (IF hit THEN 1 ELSE 0) + CountFuncs(Tail(lines))

Digits == <<"0", "1", "2", "3", "4", "5", "6", "7", "8", "9">>
NumTokens == {Digits[i] : i \in 1..10}

(* %d of Sprintf, for the small numbers of the model *)
Itoa(n) == Digits[n + 1]
(* %d of Sscanf *)
Atoi(tok) == (CHOOSE i \in 1..10 : Digits[i] = tok) - 1

(* fmt.Sprintf("%d %d\n", size, totf) *)
Sprintf(size, totf) == <<Itoa(size), " ", Itoa(totf), "\n">>

ZeroPkgInfo == [Size |-> 0, NumFuncs |-> 0]

RECURSIVE SkipBlanks(_)
SkipBlanks(s) ==
    IF s # <<>> /\ Head(s) \in {" ", "\t"} THEN SkipBlanks(Tail(s)) ELSE s

(* fmt.Sscanf(out, "%d %d", &sz, &nf): blanks before a number are skipped, *)
(* a newline is not; input left after the second number is not read.       *)
Sscanf(out) ==
    LET s1 == SkipBlanks(out)
        ok1 == s1 # <<>> /\ Head(s1) \in NumTokens
        s2 == IF ok1 THEN SkipBlanks(Tail(s1)) ELSE <<>>
        ok2 == ok1 /\ s2 # <<>> /\ Head(s2) \in NumTokens
    IN  [n   |-> IF ok2 THEN 2 ELSE IF ok1 THEN 1 ELSE 0,
         err |-> ~ok2,
         sz  |-> IF ok1 THEN Atoi(Head(s1)) ELSE 0,
         nf  |-> IF ok2 THEN Atoi(Head(s2)) ELSE 0]

----------------------------------------------------------------------------
(* State *)

EmptyMap == [x \in {} |-> 0]

MapPut(m, k, v) == [x \in DOMAIN m \cup {k} |-> IF x = k THEN v ELSE m[x]]

(* No hashes: the token file is absent, or no Make wrote what it holds. *)
NoHashes == <<<<"-">>, <<"-">>>>

(* The struct Make builds: empty maps, unlocked mutexes (0: unlocked,      *)
(* otherwise the thread that holds the mutex).                              *)
NewCache(repohash, goroothash) ==
    [listcachemu    |-> 0,
     listcache      |-> EmptyMap,
     pkgsizecachemu |-> 0,
     pkgsizecache   |-> EmptyMap,
     repohash       |-> repohash,
     goroothash     |-> goroothash]

(* The result of a query as text: the package for GoList, the two numbers  *)
(* for PkgSize.                                                             *)
Result(f) ==
    IF f.op = "GoList" THEN <<f.cpk>>
    ELSE <<Itoa(f.pi.Size), Itoa(f.pi.NumFuncs)>>

(* What GoList (tag "list") or PkgSize (tag "build") decodes an entry to *)
Decode(tag, data) ==
    IF tag = "list"
    THEN LET pk == Unmarshal(data)
         IN  [ok |-> pk.ok, res |-> <<pk.pkg>>]
    ELSE LET r == Sscanf(data)
         IN  [ok |-> ~r.err /\ r.n = 2, res |-> <<Itoa(r.sz), Itoa(r.nf)>>]

EntryNames == {cachePath(d, tag) : d \in AllDirs, tag \in {"list", "build"}}

NoSeed == [e |-> FALSE, name |-> <<>>, d |-> <<>>]

(* A call frame.  op is the exported function the thread called.  collab,  *)
(* disk, checked and collabFailed record what the call has done so far;    *)
(* seen, prev, retry, seed and stale are what the history held for the     *)
(* entry when the call began.                                               *)
Frame0 ==
    [op      |-> "",
     hashes  |-> NoHashes,
     dir     |-> <<>>,
     tag     |-> "",
     content |-> <<>>,
     out     |-> <<>>,
     valid   |-> FALSE,
     ok      |-> FALSE,
     cpk     |-> NoPkg,
     pi      |-> ZeroPkgInfo,
     size    |-> 0,
     err     |-> "nil",
     collab  |-> 0,
     disk    |-> FALSE,
     checked |-> FALSE,
     collabFailed |-> FALSE,
     seen    |-> {},
     prev    |-> {},
     retry   |-> "none",
     seed    |-> NoSeed,
     stale   |-> FALSE]

(* The history.  makes, seeds: the calls of Make and of WriteCache so far.  *)
(* tokenBy: the hashes of the Cache that wrote the token file.  calls: the *)
(* entries queried on this Cache.  ok: entry -> the results the queries of *)
(* this Cache returned without error.  prev: the same of the Cache before, *)
(* when this one was made with the same hashes and WriteCache had not      *)
(* been called for the entry, until the first query.  last: entry -> how   *)
(* its last query failed ("collab": the command failed, "decode": the      *)
(* entry file did not decode), until a query of it runs the command or     *)
(* returns without error, or WriteCache is called for it.  lastSeed: the   *)
(* entry WriteCache wrote last, until the next query of it.  seeded: the   *)
(* entries WriteCache was called for on this Cache.  raced: those it wrote *)
(* while a query of them was running.  pre, preBy: the entry files and the *)
(* token's writer when Make was called.  stale: the entry files before a   *)
(* Make with other hashes, until the first query.                          *)
History0 ==
    [makes    |-> 0,
     seeds    |-> 0,
     tokenBy  |-> NoHashes,
     calls    |-> {},
     ok       |-> [n \in EntryNames |-> {}],
     prev     |-> [n \in EntryNames |-> {}],
     last     |-> [n \in EntryNames |-> "none"],
     lastSeed |-> NoSeed,
     seeded   |-> {},
     raced    |-> {},
     pre      |-> {},
     preBy    |-> NoHashes,
     stale    |-> {}]

Init ==
    /\ rootExists = FALSE
    /\ files = [n \in FileNames |-> NoFile]
    /\ c = NewCache(<<>>, <<>>)
    /\ live = FALSE
    /\ pc = [t \in Threads |-> "idle"]
    /\ L = [t \in Threads |-> Frame0]
    /\ faults = MaxFaults
    /\ h = History0

(* A step that the environment may make fail: ok is its outcome. *)
Outcome(ok) ==
    /\ ok \/ faults > 0
    /\ faults' = IF ok THEN faults ELSE faults - 1

Goto(t, p, f) ==
    /\ pc' = [pc EXCEPT ![t] = p]
    /\ L' = [L EXCEPT ![t] = f]

(* The exported function returns with error e. *)
Fail(t, e, f) == Goto(t, "done", [f EXCEPT !.err = e])

----------------------------------------------------------------------------
(* Make, lines 41-60 *)

CallMake(t, hp) ==
    /\ \A u \in Threads : pc[u] = "idle"
    /\ h.makes < MaxMakes
    /\ h' = [h EXCEPT !.makes = @ + 1,
                      !.calls = {},
                      !.ok = [n \in EntryNames |-> {}],
                      !.prev = [n \in EntryNames |->
                                  IF /\ live
                                     /\ hp = <<c.repohash, c.goroothash>>
                                     /\ n \notin h.seeded
                                  THEN h.ok[n] ELSE {}],
                      !.last = [n \in EntryNames |-> "none"],
                      !.lastSeed = NoSeed,
                      !.seeded = {},
                      !.raced = {},
                      !.pre = {n \in EntryNames : rootExists /\ files[n].e},
                      !.preBy = IF rootExists /\ files[glopath].e
                                THEN h.tokenBy ELSE NoHashes,
                      !.stale = {}]
    /\ live' = FALSE
    /\ Goto(t, "mk_mkdir", [Frame0 EXCEPT !.op = "Make", !.hashes = hp])
    /\ UNCHANGED <<rootExists, files, c, faults>>

(* os.Mkdir(rootcachedir), "already exists" tolerated; then the struct *)
Make_Mkdir(t, ok) ==
    /\ pc[t] = "mk_mkdir"
    /\ Outcome(ok)
    /\ IF ~ok
       THEN /\ Fail(t, "mkdir", L[t])
            /\ UNCHANGED <<rootExists, c>>
       ELSE /\ rootExists' = TRUE
            /\ c' = NewCache(L[t].hashes[1], L[t].hashes[2])
            /\ Goto(t, "cv_read", L[t])
    /\ UNCHANGED <<files, live, h>>

----------------------------------------------------------------------------
(* checkValid, lines 94-117, and writeToken, lines 79-92 *)

(* checkValid returns e to its caller: Make, or tryCache (line 125). *)
checkValidReturn(t, e, f) ==
    IF e # "nil" THEN Fail(t, e, f)
    ELSE IF f.op = "Make" THEN Goto(t, "done", f)
    ELSE Goto(t, "tc_read", f)

(* os.ReadFile of the token and the comparison, lines 95-104 *)
checkValid_Read(t, ok) ==
    /\ pc[t] = "cv_read"
    /\ Outcome(ok)
    /\ LET f == [L[t] EXCEPT !.checked = TRUE]
           contents == IF rootExists /\ files[glopath].e
                       THEN files[glopath].d ELSE <<>>
           val == TrimSpace(contents)
           want == WantToken(c.repohash, c.goroothash)
       IN  IF ~ok THEN Fail(t, "readtoken", f)
           ELSE IF val # want THEN Goto(t, "cv_rmall", f)
           ELSE checkValidReturn(t, "nil", f)
    /\ UNCHANGED <<rootExists, files, c, live, h>>

(* os.RemoveAll(c.root), line 106 *)
checkValid_RemoveAll(t, ok) ==
    /\ pc[t] = "cv_rmall"
    /\ Outcome(ok)
    /\ IF ~ok
       THEN /\ Fail(t, "removeall", L[t])
            /\ UNCHANGED <<rootExists, files>>
       ELSE /\ rootExists' = FALSE
            /\ files' = [n \in FileNames |-> NoFile]
            /\ Goto(t, "cv_mkdir", L[t])
    /\ h' = IF ok THEN [h EXCEPT !.tokenBy = NoHashes] ELSE h
    /\ UNCHANGED <<c, live>>

(* os.Mkdir(c.root), line 109: fails when the directory exists *)
checkValid_Mkdir(t, ok) ==
    /\ pc[t] = "cv_mkdir"
    /\ Outcome(ok)
    /\ IF ~ok \/ rootExists
       THEN /\ Fail(t, "mkdir", L[t])
            /\ UNCHANGED rootExists
       ELSE /\ rootExists' = TRUE
            /\ Goto(t, "wt_open", L[t])
    /\ UNCHANGED <<files, c, live, h>>

(* os.OpenFile(p, O_WRONLY|O_CREATE|O_TRUNC), line 81 *)
writeToken_Open(t, ok) ==
    /\ pc[t] = "wt_open"
    /\ Outcome(ok)
    /\ IF ~ok \/ ~rootExists
       THEN /\ Fail(t, "opentoken", L[t])
            /\ UNCHANGED files
       ELSE /\ files' = [files EXCEPT ![glopath] = File(<<>>)]
            /\ Goto(t, "wt_write", L[t])
    /\ h' = IF ok /\ rootExists THEN [h EXCEPT !.tokenBy = NoHashes] ELSE h
    /\ UNCHANGED <<rootExists, c, live>>

(* fmt.Fprintf(outf, "%s %s\n", ...) and outf.Close(), lines 85-90.  A     *)
(* write to a file that was removed meanwhile changes no file of the root. *)
writeToken_Write(t, ok) ==
    /\ pc[t] = "wt_write"
    /\ Outcome(ok)
    /\ IF ~ok
       THEN /\ Fail(t, "writetoken", L[t])
            /\ UNCHANGED <<files, h>>
       ELSE /\ IF rootExists /\ files[glopath].e
               THEN /\ files' = [files EXCEPT ![glopath] =
                                    File(TokenText(c.repohash, c.goroothash))]
                    /\ h' = [h EXCEPT !.tokenBy = <<c.repohash, c.goroothash>>]
               ELSE UNCHANGED <<files, h>>
            /\ checkValidReturn(t, "nil", L[t])
    /\ UNCHANGED <<rootExists, c, live>>

----------------------------------------------------------------------------
(* tryCache, lines 124-140 (its call of checkValid is above) *)

(* tryCache returns (out, valid, err) to GoList (line 160) or PkgSize      *)
(* (line 250), which branch on it.                                          *)
tryCacheReturn(t, f) ==
    IF f.op = "GoList"
    THEN IF ~f.valid THEN Goto(t, "gl_run", f) ELSE Goto(t, "gl_unmarshal", f)
    ELSE IF ~f.valid THEN Goto(t, "ps_rmarchive", f) ELSE Goto(t, "ps_scan", f)

(* os.ReadFile(c.cachePath(dir, tag)), lines 129-139 *)
tryCache_Read(t, ok) ==
    /\ pc[t] = "tc_read"
    /\ Outcome(ok)
    /\ LET p == cachePath(L[t].dir, L[t].tag)
           f == [L[t] EXCEPT !.disk = TRUE]
       IN  IF ~ok THEN Fail(t, "readentry", f)
           ELSE IF rootExists /\ files[p].e
           THEN tryCacheReturn(t, [f EXCEPT !.out = files[p].d, !.valid = TRUE])
           ELSE tryCacheReturn(t, [f EXCEPT !.valid = FALSE])
    /\ UNCHANGED <<rootExists, files, c, live, h>>

----------------------------------------------------------------------------
(* WriteCache, lines 142-148 *)

(* The contents a caller of WriteCache seeds an entry with: for "list",    *)
(* the JSON of another package, the same JSON spaced differently, and      *)
(* text that is no JSON; for "build", two numbers, two numbers and a       *)
(* third, one number, and text that is no number.                          *)
SeedContents(dir, tag) ==
    IF dir = unsafe
    THEN IF tag = "list" THEN {} ELSE { <<"3", " ", "4", "\n">> }
    ELSE IF tag = "list"
    THEN { <<"{", "seeded", "}">>, <<"{", " ", "seeded", "}", "\n">>, <<"junk">> }
    ELSE { <<"3", " ", "4", "\n">>, <<"3", " ", "4", " ", "5">>, <<"3">>, <<"junk">> }

CallWriteCache(t, dir, tag, content) ==
    /\ pc[t] = "idle"
    /\ live
    /\ h.seeds < MaxSeeds
    /\ h' = [h EXCEPT !.seeds = @ + 1,
                      !.seeded = @ \cup {cachePath(dir, tag)},
                      !.prev[cachePath(dir, tag)] = {},
                      !.last[cachePath(dir, tag)] = "none",
                      !.stale = @ \ {cachePath(dir, tag)}]
    /\ Goto(t, "wc_open", [Frame0 EXCEPT !.op = "WriteCache", !.dir = dir,
                                         !.tag = tag, !.content = content])
    /\ UNCHANGED <<rootExists, files, c, live, faults>>

(* WriteCache returns e to its caller: GoList (line 173), PkgSize (line    *)
(* 271) or the program.                                                     *)
WriteCacheReturn(t, e, f) ==
    IF f.op = "GoList"
    THEN IF e # "nil" THEN Fail(t, "writing cache", f) ELSE Goto(t, "done", f)
    ELSE IF f.op = "PkgSize"
    THEN IF e # "nil" THEN Fail(t, "writing cache", f) ELSE Goto(t, "ps_remove", f)
    ELSE IF e # "nil" THEN Fail(t, e, f) ELSE Goto(t, "done", f)

(* Another thread is inside a query of the entry (dir, tag). *)
Running(t, dir, tag) ==
    \E u \in Threads \ {t} :
        /\ pc[u] \notin {"idle", "done"}
        /\ L[u].op \in {"GoList", "PkgSize"}
        /\ L[u].dir = dir /\ L[u].tag = tag

(* os.WriteFile opens the file with O_WRONLY|O_CREATE|O_TRUNC ... *)
WriteCache_Open(t, ok) ==
    /\ pc[t] = "wc_open"
    /\ Outcome(ok)
    /\ LET p == cachePath(L[t].dir, L[t].tag)
           f == [L[t] EXCEPT !.disk = TRUE]
       IN  IF ~ok \/ ~rootExists
           THEN /\ WriteCacheReturn(t, "writefile", f)
                /\ UNCHANGED files
           ELSE /\ files' = [files EXCEPT ![p] = File(<<>>)]
                /\ Goto(t, "wc_write", f)
    /\ UNCHANGED <<rootExists, c, live, h>>

(* ... and then writes the content and closes it. *)
WriteCache_Write(t, ok) ==
    /\ pc[t] = "wc_write"
    /\ Outcome(ok)
    /\ LET p == cachePath(L[t].dir, L[t].tag)
       IN  IF ~ok
           THEN /\ WriteCacheReturn(t, "writefile", L[t])
                /\ UNCHANGED files
           ELSE /\ files' = IF rootExists /\ files[p].e
                            THEN [files EXCEPT ![p] = File(L[t].content)]
                            ELSE files
                /\ WriteCacheReturn(t, "nil", L[t])
    /\ h' = IF L[t].op = "WriteCache" /\ ok /\ Running(t, L[t].dir, L[t].tag)
            THEN [h EXCEPT !.raced = @ \cup {cachePath(L[t].dir, L[t].tag)}]
            ELSE h
    /\ UNCHANGED <<rootExists, c, live>>

----------------------------------------------------------------------------
(* GoList, lines 150-186, and goListUncached, lines 188-204 *)

(* The frame of a query that begins now *)
QueryFrame(op, dir, tag) ==
    LET n == cachePath(dir, tag)
    IN  [Frame0 EXCEPT !.op = op, !.dir = dir, !.tag = tag,
                       !.seen = h.ok[n],
                       !.prev = h.prev[n],
                       !.retry = h.last[n],
                       !.seed = IF h.lastSeed.e /\ h.lastSeed.name = n
                                THEN h.lastSeed ELSE NoSeed,
                       !.stale = n \in h.stale]

CallGoList(t, dir) ==
    /\ pc[t] = "idle"
    /\ live
    /\ Goto(t, "gl_lock1", QueryFrame("GoList", dir, "list"))
    /\ h' = [h EXCEPT !.calls = @ \cup {cachePath(dir, "list")}]
    /\ UNCHANGED <<rootExists, files, c, live, faults>>

(* c.listcachemu.Lock() *)
LockList(t, from, to) ==
    /\ pc[t] = from
    /\ c.listcachemu = 0
    /\ c' = [c EXCEPT !.listcachemu = t]
    /\ Goto(t, to, L[t])
    /\ UNCHANGED <<rootExists, files, live, faults, h>>

(* c.listcachemu.Unlock() *)
UnlockList(t, from, to) ==
    /\ pc[t] = from
    /\ c' = [c EXCEPT !.listcachemu = 0]
    /\ Goto(t, to, L[t])
    /\ UNCHANGED <<rootExists, files, live, faults, h>>

(* line 152 *)
GoList_Lock1(t) == LockList(t, "gl_lock1", "gl_get1")

(* GoList_Get1 without the lookup: every call misses in memory. *)
GoList_Get1_NeverHit(t) ==
    /\ pc[t] = "gl_get1"
    /\ Goto(t, "gl_unlock1", [L[t] EXCEPT !.ok = FALSE, !.cpk = NoPkg])
    /\ UNCHANGED <<rootExists, files, c, live, faults, h>>

(* cpk, ok := c.listcache[dir], line 153 *)
GoList_Get1(t) ==
    /\ pc[t] = "gl_get1"
    /\ LET hit == L[t].dir \in DOMAIN c.listcache
       IN  Goto(t, "gl_unlock1",
                [L[t] EXCEPT !.ok = hit,
                             !.cpk = IF hit THEN c.listcache[L[t].dir] ELSE NoPkg])
    /\ UNCHANGED <<rootExists, files, c, live, faults, h>>

(* GoList_Unlock1 without the Unlock: the mutex stays held. *)
GoList_Unlock1_KeepsLock(t) ==
    /\ pc[t] = "gl_unlock1"
    /\ Goto(t, IF L[t].ok THEN "done" ELSE "cv_read", L[t])
    /\ UNCHANGED <<rootExists, files, c, live, faults, h>>

(* lines 154-160: unlock, return on a hit, else call tryCache *)
GoList_Unlock1(t) ==
    UnlockList(t, "gl_unlock1", IF L[t].ok THEN "done" ELSE "cv_read")

(* GoList_Run that does not look at the error of the command: the zero    *)
(* package is then cached and written.                                     *)
GoList_Run_IgnoresError(t, ok) ==
    /\ pc[t] = "gl_run"
    /\ Outcome(ok)
    /\ LET f == [L[t] EXCEPT !.collab = 1, !.collabFailed = ~ok]
           out == IF ok THEN GoListOutput(L[t].dir) ELSE <<>>
           pk == Unmarshal(out)
       IN  Goto(t, "gl_lock2", [f EXCEPT !.cpk = pk.pkg, !.content = out])
    /\ UNCHANGED <<rootExists, files, c, live, h>>

(* goListUncached(dir, ""), lines 165-168: "go list -json" and its decoding *)
GoList_Run(t, ok) ==
    /\ pc[t] = "gl_run"
    /\ Outcome(ok)
    /\ LET f == [L[t] EXCEPT !.collab = 1]
           out == GoListOutput(L[t].dir)
           pk == Unmarshal(out)
       IN  IF ~ok THEN Fail(t, "go list", [f EXCEPT !.collabFailed = TRUE])
           ELSE IF ~pk.ok THEN Fail(t, "unmarshal", f)
           ELSE Goto(t, "gl_lock2", [f EXCEPT !.cpk = pk.pkg, !.content = out])
    /\ UNCHANGED <<rootExists, files, c, live, h>>

(* line 169 *)
GoList_Lock2(t) == LockList(t, "gl_lock2", "gl_put2")

(* c.listcache[dir] = pk, line 170 *)
GoList_Put2(t) ==
    /\ pc[t] = "gl_put2"
    /\ c' = [c EXCEPT !.listcache = MapPut(@, L[t].dir, L[t].cpk)]
    /\ Goto(t, "gl_unlock2", L[t])
    /\ UNCHANGED <<rootExists, files, live, faults, h>>

(* lines 171-173: unlock, then c.WriteCache(dir, "list", out) *)
GoList_Unlock2(t) == UnlockList(t, "gl_unlock2", "wc_open")

(* GoList_Unmarshal that takes an entry that does not decode for a miss *)
GoList_Unmarshal_Refetches(t) ==
    /\ pc[t] = "gl_unmarshal"
    /\ LET pk == Unmarshal(L[t].out)
       IN  IF ~pk.ok THEN Goto(t, "gl_run", L[t])
           ELSE Goto(t, "gl_lock3", [L[t] EXCEPT !.cpk = pk.pkg])
    /\ UNCHANGED <<rootExists, files, c, live, faults, h>>

(* json.Unmarshal(out, &pkg), lines 179-181 *)
GoList_Unmarshal(t) ==
    /\ pc[t] = "gl_unmarshal"
    /\ LET pk == Unmarshal(L[t].out)
       IN  IF ~pk.ok THEN Fail(t, "unmarshal", L[t])
           ELSE Goto(t, "gl_lock3", [L[t] EXCEPT !.cpk = pk.pkg])
    /\ UNCHANGED <<rootExists, files, c, live, faults, h>>

(* line 182 *)
GoList_Lock3(t) == LockList(t, "gl_lock3", "gl_put3")

(* c.listcache[dir] = &pkg, line 183 *)
GoList_Put3(t) ==
    /\ pc[t] = "gl_put3"
    /\ c' = [c EXCEPT !.listcache = MapPut(@, L[t].dir, L[t].cpk)]
    /\ Goto(t, "gl_unlock3", L[t])
    /\ UNCHANGED <<rootExists, files, live, faults, h>>

(* lines 184-185 *)
GoList_Unlock3(t) == UnlockList(t, "gl_unlock3", "done")

----------------------------------------------------------------------------
(* PkgSize, lines 237-288, and computePkgInfo, lines 209-235 *)

CallPkgSize(t, dir) ==
    /\ pc[t] = "idle"
    /\ live
    /\ Goto(t, "ps_entry", QueryFrame("PkgSize", dir, "build"))
    /\ h' = [h EXCEPT !.calls = @ \cup {cachePath(dir, "build")}]
    /\ UNCHANGED <<rootExists, files, c, live, faults>>

(* PkgSize_Entry without the special case *)
PkgSize_Entry_NoSpecialCase(t) ==
    /\ pc[t] = "ps_entry"
    /\ Goto(t, "ps_lock1", L[t])
    /\ UNCHANGED <<rootExists, files, c, live, faults, h>>

(* special case for unsafe, lines 239-241 *)
PkgSize_Entry(t) ==
    /\ pc[t] = "ps_entry"
    /\ IF L[t].dir = unsafe
       THEN Goto(t, "done", [L[t] EXCEPT !.pi = [Size |-> 1, NumFuncs |-> 0]])
       ELSE Goto(t, "ps_lock1", L[t])
    /\ UNCHANGED <<rootExists, files, c, live, faults, h>>

(* c.pkgsizecachemu.Lock() *)
LockSize(t, from, to) ==
    /\ pc[t] = from
    /\ c.pkgsizecachemu = 0
    /\ c' = [c EXCEPT !.pkgsizecachemu = t]
    /\ Goto(t, to, L[t])
    /\ UNCHANGED <<rootExists, files, live, faults, h>>

(* UnlockSize without the release: the call goes on holding the mutex. *)
UnlockSize_KeepsLock(t, from, to) ==
    /\ pc[t] = from
    /\ Goto(t, to, L[t])
    /\ UNCHANGED <<rootExists, files, c, live, faults, h>>

(* c.pkgsizecachemu.Unlock() *)
UnlockSize(t, from, to) ==
    /\ pc[t] = from
    /\ c' = [c EXCEPT !.pkgsizecachemu = 0]
    /\ Goto(t, to, L[t])
    /\ UNCHANGED <<rootExists, files, live, faults, h>>

(* line 243 *)
PkgSize_Lock1(t) == LockSize(t, "ps_lock1", "ps_get1")

(* cachedv, ok := c.pkgsizecache[dir], line 244 *)
PkgSize_Get1(t) ==
    /\ pc[t] = "ps_get1"
    /\ LET hit == L[t].dir \in DOMAIN c.pkgsizecache
       IN  Goto(t, "ps_unlock1",
                [L[t] EXCEPT !.ok = hit,
                             !.pi = IF hit THEN c.pkgsizecache[L[t].dir]
                                           ELSE ZeroPkgInfo])
    /\ UNCHANGED <<rootExists, files, c, live, faults, h>>

(* PkgSize_Unlock1 followed by a tryCache that does not call checkValid *)
PkgSize_Unlock1_SkipsCheck(t) ==
    UnlockSize(t, "ps_unlock1", IF L[t].ok THEN "done" ELSE "tc_read")

(* lines 245-250: unlock, return on a hit, else call tryCache *)
PkgSize_Unlock1(t) ==
    UnlockSize(t, "ps_unlock1", IF L[t].ok THEN "done" ELSE "cv_read")

(* os.RemoveAll(outfile), line 256; its error is not looked at *)
PkgSize_RemoveArchive(t) ==
    /\ pc[t] = "ps_rmarchive"
    /\ files' = [files EXCEPT ![cachePath(L[t].dir, "archive")] = NoFile]
    /\ Goto(t, "ps_build", L[t])
    /\ UNCHANGED <<rootExists, c, live, faults, h>>

(* "go build -o outfile dir", lines 258-263.  The command fails when it    *)
(* cannot write outfile because the root directory is gone.                *)
PkgSize_Build(t, ok) ==
    /\ pc[t] = "ps_build"
    /\ Outcome(ok)
    /\ LET f == [L[t] EXCEPT !.collab = 1]
       IN  IF ~ok \/ ~rootExists
           THEN /\ Fail(t, "go build", [f EXCEPT !.collabFailed = TRUE])
                /\ UNCHANGED files
           ELSE /\ files' = [files EXCEPT ![cachePath(L[t].dir, "archive")] =
                                  File(BuildArchive(L[t].dir))]
                /\ Goto(t, "ps_stat", f)
    /\ UNCHANGED <<rootExists, c, live, h>>

(* os.Stat(apath), lines 211-214; PkgSize returns its error at line 267 *)
computePkgInfo_Stat(t, ok) ==
    /\ pc[t] = "ps_stat"
    /\ Outcome(ok)
    /\ LET p == cachePath(L[t].dir, "archive")
       IN  IF ~ok \/ ~(rootExists /\ files[p].e)
           THEN Fail(t, "stat", [L[t] EXCEPT !.collabFailed = TRUE])
           ELSE Goto(t, "ps_nm", [L[t] EXCEPT !.size = StatSize(files[p].d)])
    /\ UNCHANGED <<rootExists, files, c, live, h>>

(* "go tool nm apath", the count of its T lines and the payload, lines     *)
(* 216-234 and 264-271: the payload is then given to WriteCache.           *)
computePkgInfo_Nm(t, ok) ==
    /\ pc[t] = "ps_nm"
    /\ Outcome(ok)
    /\ LET p == cachePath(L[t].dir, "archive")
       IN  IF ~ok \/ ~(rootExists /\ files[p].e)
           THEN Fail(t, "go tool nm", [L[t] EXCEPT !.collabFailed = TRUE])
           ELSE LET payload == Sprintf(L[t].size, CountFuncs(NmOutput(files[p].d)))
                IN  Goto(t, "wc_open", [L[t] EXCEPT !.out = payload,
                                                    !.content = payload])
    /\ UNCHANGED <<rootExists, files, c, live, h>>

(* os.Remove(outfile), line 274 *)
PkgSize_Remove(t) ==
    /\ pc[t] = "ps_remove"
    /\ files' = [files EXCEPT ![cachePath(L[t].dir, "archive")] = NoFile]
    /\ Goto(t, "ps_scan", L[t])
    /\ UNCHANGED <<rootExists, c, live, faults, h>>

(* fmt.Sscanf(string(out), "%d %d", &sz, &nf), lines 277-282 *)
PkgSize_Scan(t) ==
    /\ pc[t] = "ps_scan"
    /\ LET r == Sscanf(L[t].out)
       IN  IF r.err \/ r.n # 2 THEN Fail(t, "interpreting pksize", L[t])
           ELSE Goto(t, "ps_lock2",
                     [L[t] EXCEPT !.pi = [Size |-> r.sz, NumFuncs |-> r.nf]])
    /\ UNCHANGED <<rootExists, files, c, live, faults, h>>

(* line 283 *)
PkgSize_Lock2(t) == LockSize(t, "ps_lock2", "ps_put2")

(* c.pkgsizecache[dir] = pi, line 284 *)
PkgSize_Put2(t) ==
    /\ pc[t] = "ps_put2"
    /\ c' = [c EXCEPT !.pkgsizecache = MapPut(@, L[t].dir, L[t].pi)]
    /\ Goto(t, "ps_unlock2", L[t])
    /\ UNCHANGED <<rootExists, files, live, faults, h>>

(* lines 285-287 *)
PkgSize_Unlock2(t) == UnlockSize(t, "ps_unlock2", "done")

----------------------------------------------------------------------------
(* The exported function hands its results to the caller. *)

Return(t) ==
    /\ pc[t] = "done"
    /\ live' = IF L[t].op = "Make" THEN L[t].err = "nil" ELSE live
    /\ Goto(t, "idle", Frame0)
    /\ LET f == L[t]
           n == cachePath(f.dir, f.tag)
       IN  h' = IF f.op = "Make"
                THEN [h EXCEPT !.pre = {},
                               !.preBy = NoHashes,
                               !.stale = IF f.err = "nil" /\ f.hashes # h.preBy
                                         THEN h.pre ELSE {}]
                ELSE IF f.op = "WriteCache"
                THEN IF f.err # "nil" THEN h
                     ELSE [h EXCEPT !.lastSeed = [e |-> TRUE, name |-> n,
                                                  d |-> f.content]]
                ELSE [h EXCEPT !.ok[n] = IF f.err = "nil"
                                         THEN @ \cup {Result(f)} ELSE @,
                               !.prev[n] = {},
                               !.last[n] =
                                   IF f.collabFailed THEN "collab"
                                   ELSE IF f.valid /\ ~Decode(f.tag, f.out).ok
                                   THEN "decode"
                                   ELSE IF f.err = "nil" \/ f.collab = 1
                                   THEN "none" ELSE @,
                               !.lastSeed = IF h.lastSeed.name = n
                                            THEN NoSeed ELSE @,
                               !.stale = @ \ {n}]
    /\ UNCHANGED <<rootExists, files, c, faults>>

----------------------------------------------------------------------------
(* Specifications *)

(* The steps of Make and of checkValid *)
MakeStep(t, ok) ==
    \/ \E hp \in HashPairs : ok /\ CallMake(t, hp)
    \/ Make_Mkdir(t, ok)

ValidStep(t, ok) ==
    \/ checkValid_Read(t, ok)
    \/ checkValid_RemoveAll(t, ok)
    \/ checkValid_Mkdir(t, ok)
    \/ writeToken_Open(t, ok)
    \/ writeToken_Write(t, ok)

WriteStep(t, ok) ==
    \/ WriteCache_Open(t, ok)
    \/ WriteCache_Write(t, ok)

SeedStep(t) ==
    \E d \in Dirs, tag \in {"list", "build"} :
        \E content \in SeedContents(d, tag) : CallWriteCache(t, d, tag, content)

GoListStep(t, ok) ==
    \/ \E d \in ListDirs : ok /\ CallGoList(t, d)
    \/ ok /\ GoList_Lock1(t)
    \/ ok /\ GoList_Get1(t)
    \/ ok /\ GoList_Unlock1(t)
    \/ GoList_Run(t, ok)
    \/ ok /\ GoList_Lock2(t)
    \/ ok /\ GoList_Put2(t)
    \/ ok /\ GoList_Unlock2(t)
    \/ ok /\ GoList_Unmarshal(t)
    \/ ok /\ GoList_Lock3(t)
    \/ ok /\ GoList_Put3(t)
    \/ ok /\ GoList_Unlock3(t)

PkgSizeStep(t, ok) ==
    \/ \E d \in Dirs : ok /\ CallPkgSize(t, d)
    \/ ok /\ PkgSize_Entry(t)
    \/ ok /\ PkgSize_Lock1(t)
    \/ ok /\ PkgSize_Get1(t)
    \/ ok /\ PkgSize_Unlock1(t)
    \/ ok /\ PkgSize_RemoveArchive(t)
    \/ PkgSize_Build(t, ok)
    \/ computePkgInfo_Stat(t, ok)
    \/ computePkgInfo_Nm(t, ok)
    \/ ok /\ PkgSize_Remove(t)
    \/ ok /\ PkgSize_Scan(t)
    \/ ok /\ PkgSize_Lock2(t)
    \/ ok /\ PkgSize_Put2(t)
    \/ ok /\ PkgSize_Unlock2(t)

(* One program after another on one cache root, each a single thread that  *)
(* makes a Cache and then calls GoList, PkgSize and WriteCache; any I/O    *)
(* step and any command may fail, MaxFaults times in all.                  *)
Next ==
    \E ok \in BOOLEAN :
        \/ MakeStep(1, ok)
        \/ ValidStep(1, ok)
        \/ tryCache_Read(1, ok)
        \/ WriteStep(1, ok)
        \/ ok /\ SeedStep(1)
        \/ GoListStep(1, ok)
        \/ PkgSizeStep(1, ok)
        \/ ok /\ Return(1)

Spec == Init /\ [][Next]_vars


(* One program whose threads call GoList and PkgSize on one Cache at the   *)
(* same time.  It begins when Make has returned the Cache on  *)
(* a new root; no I/O step fails by itself, but a step fails when another  *)
(* thread has removed the directory or the file it needs.                  *)
ParHashPairs == { <<<<"y">>, <<"d">>>>, <<<<>>, <<>>>> }

InitPar ==
    \E hp \in ParHashPairs :
        /\ rootExists = TRUE
        /\ files = [n \in FileNames |->
                       IF n = glopath THEN File(TokenText(hp[1], hp[2]))
                       ELSE NoFile]
        /\ c = NewCache(hp[1], hp[2])
        /\ live = TRUE
        /\ pc = [t \in Threads |-> "idle"]
        /\ L = [t \in Threads |-> Frame0]
        /\ faults = 0
        /\ h = [History0 EXCEPT !.makes = 1, !.tokenBy = hp]

NextPar ==
    \E t \in Threads :
        \/ ValidStep(t, TRUE)
        \/ tryCache_Read(t, TRUE)
        \/ WriteStep(t, TRUE)
        \/ GoListStep(t, TRUE)
        \/ PkgSizeStep(t, TRUE)
        \/ Return(t)

SpecPar == InitPar /\ [][NextPar]_vars


(* A program that makes a Cache with ordinary hashes, on a root that an     *)
(* earlier program made with other hashes has left, and whose threads then *)
(* call GoList, PkgSize and WriteCache (with well-formed content) on it at *)
(* the same time.                                                           *)
OldHashes == <<<<"x">>, <<"d", " ", "e">>>>

InitSeed ==
    /\ rootExists = TRUE
    /\ files = [n \in FileNames |->
                   IF n = glopath THEN File(TokenText(OldHashes[1], OldHashes[2]))
                   ELSE IF n = cachePath(io, "list") THEN File(GoListOutput(io))
                   ELSE NoFile]
    /\ c = NewCache(<<>>, <<>>)
    /\ live = FALSE
    /\ pc = [t \in Threads |-> "idle"]
    /\ L = [t \in Threads |-> Frame0]
    /\ faults = 0
    /\ h = [History0 EXCEPT !.makes = MaxMakes - 1, !.tokenBy = OldHashes]

OverrideStep(t) ==
    \/ CallWriteCache(t, io, "list", <<"{", "seeded", "}">>)
    \/ CallWriteCache(t, io, "build", <<"3", " ", "4", "\n">>)

NextSeed ==
    \E t \in Threads :
        \/ CallMake(t, <<<<"y">>, <<"d">>>>)
        \/ Make_Mkdir(t, TRUE)
        \/ ValidStep(t, TRUE)
        \/ tryCache_Read(t, TRUE)
        \/ WriteStep(t, TRUE)
        \/ OverrideStep(t)
        \/ GoListStep(t, TRUE)
        \/ PkgSizeStep(t, TRUE)
        \/ Return(t)

SpecSeed == InitSeed /\ [][NextSeed]_vars


(* One program whose threads call GoList, on a Cache that Make has         *)
(* returned on a new root, with two names that differ in a path separator. *)
InitNames ==
    /\ rootExists = TRUE
    /\ files = [n \in FileNames |->
                   IF n = glopath THEN File(TokenText(<<"y">>, <<"d">>))
                   ELSE NoFile]
    /\ c = NewCache(<<"y">>, <<"d">>)
    /\ live = TRUE
    /\ pc = [t \in Threads |-> "idle"]
    /\ L = [t \in Threads |-> Frame0]
    /\ faults = 0
    /\ h = [History0 EXCEPT !.makes = 1, !.tokenBy = <<<<"y">>, <<"d">>>>]

NextNames ==
    \E t \in Threads :
        \/ \E d \in PathDirs : CallGoList(t, d)
        \/ GoList_Lock1(t)
        \/ GoList_Get1(t)
        \/ GoList_Unlock1(t)
        \/ checkValid_Read(t, TRUE)
        \/ tryCache_Read(t, TRUE)
        \/ GoList_Run(t, TRUE)
        \/ GoList_Lock2(t)
        \/ GoList_Put2(t)
        \/ GoList_Unlock2(t)
        \/ WriteStep(t, TRUE)
        \/ GoList_Unmarshal(t)
        \/ GoList_Lock3(t)
        \/ GoList_Put3(t)
        \/ GoList_Unlock3(t)
        \/ Return(t)

SpecNames == InitNames /\ [][NextNames]_vars


(* The threads of one program call GoList and PkgSize for one package on   *)
(* one Cache at the same time; any I/O step and any command may fail,      *)
(* MaxFaults times in all.  A thread inside a call keeps running: the Go   *)
(* scheduler runs every runnable goroutine, and sync.Mutex hands the lock  *)
(* to a goroutine that has waited for it (starvation mode), so a step that *)
(* is possible again and again is taken.  When a thread calls, and when it *)
(* takes up a result, is up to the program.                                *)
InitFair ==
    /\ rootExists = TRUE
    /\ files = [n \in FileNames |->
                   IF n = glopath THEN File(TokenText(<<"y">>, <<"d">>))
                   ELSE NoFile]
    /\ c = NewCache(<<"y">>, <<"d">>)
    /\ live = TRUE
    /\ pc = [t \in Threads |-> "idle"]
    /\ L = [t \in Threads |-> Frame0]
    /\ faults = MaxFaults
    /\ h = [History0 EXCEPT !.makes = 1, !.tokenBy = <<<<"y">>, <<"d">>>>]

FairStep(t, ok) ==
    \/ checkValid_Read(t, ok)
    \/ tryCache_Read(t, ok)
    \/ WriteStep(t, ok)
    \/ GoListStep(t, ok)
    \/ ok /\ CallPkgSize(t, io)
    \/ ok /\ PkgSize_Entry(t)
    \/ ok /\ PkgSize_Lock1(t)
    \/ ok /\ PkgSize_Get1(t)
    \/ ok /\ PkgSize_Unlock1(t)
    \/ ok /\ PkgSize_RemoveArchive(t)
    \/ PkgSize_Build(t, ok)
    \/ computePkgInfo_Stat(t, ok)
    \/ computePkgInfo_Nm(t, ok)
    \/ ok /\ PkgSize_Remove(t)
    \/ ok /\ PkgSize_Scan(t)
    \/ ok /\ PkgSize_Lock2(t)
    \/ ok /\ PkgSize_Put2(t)
    \/ ok /\ PkgSize_Unlock2(t)
    \/ ok /\ Return(t)

NextFair == \E t \in Threads, ok \in BOOLEAN : FairStep(t, ok)

(* The thread is inside GoList or PkgSize. *)
InCall(t) == pc[t] \notin {"idle", "done"}

SpecFair ==
    /\ InitFair /\ [][NextFair]_vars
    /\ \A t \in Threads :
           SF_vars(InCall(t) /\ \E ok \in BOOLEAN : FairStep(t, ok))


----------------------------------------------------------------------------
(* Properties *)

Queries == {"GoList", "PkgSize"}

(* The call of thread t has returned: its results are in its frame. *)
Returned(t) == pc[t] = "done" /\ L[t].op \in Queries

(* The map GoList (tag "list") or PkgSize (tag "build") looks dir up in *)
InMemory(dir, tag) ==
    IF tag = "list" THEN dir \in DOMAIN c.listcache
    ELSE dir \in DOMAIN c.pkgsizecache

EntryExists(dir, tag) == rootExists /\ files[cachePath(dir, tag)].e

(* The errors of the I/O steps that come before the entry is decoded or    *)
(* the command is run.                                                      *)
EarlyErrors ==
    {"readtoken", "removeall", "mkdir", "opentoken", "writetoken", "readentry"}

(* What the commands yield for dir *)
ListResult(dir) == <<Unmarshal(GoListOutput(dir)).pkg>>
SizePayload(dir) ==
    Sprintf(StatSize(BuildArchive(dir)), CountFuncs(NmOutput(BuildArchive(dir))))

(* C1, as the claim states it: once a query of an entry has returned a     *)
(* result r without error, every call of that query that begins later      *)
(* returns r without error, and runs no command, no validity check and no  *)
(* read or write of an entry file.                                          *)
C1_MemoryHitAlwaysEqual ==
    \A t \in Threads :
        (Returned(t) /\ L[t].seen # {}) =>
            /\ L[t].err = "nil"
            /\ L[t].collab = 0 /\ ~L[t].disk /\ ~L[t].checked
            /\ \A r \in L[t].seen : Result(L[t]) = r

(* C1, amended: the later call returns without error and runs no command,  *)
(* no validity check and no entry I/O; its result equals r unless          *)
(* WriteCache has written the entry while a query of it was running on     *)
(* another thread.                                                          *)
C1_MemoryHit ==
    \A t \in Threads :
        (Returned(t) /\ L[t].seen # {}) =>
            /\ L[t].err = "nil"
            /\ L[t].collab = 0 /\ ~L[t].disk /\ ~L[t].checked
            /\ cachePath(L[t].dir, L[t].tag) \notin h.raced =>
                   \A r \in L[t].seen : Result(L[t]) = r

C1_Witness ==
    \E t \in Threads :
        /\ Returned(t) /\ L[t].seen # {} /\ L[t].dir = io
        /\ h.seeded # {} /\ cachePath(L[t].dir, L[t].tag) \notin h.raced

(* C2, as the claim states it: when a Cache is made with the hashes of the *)
(* Cache before it, on which a query had returned r, Make keeps the entry  *)
(* files, and the first query of that entry on the new Cache returns r and *)
(* runs no command (unless an early I/O step fails, or WriteCache had      *)
(* written the entry).                                                      *)
C2_DiskHitAcrossInstances ==
    \A t \in Threads :
        /\ ( /\ pc[t] = "done" /\ L[t].op = "Make" /\ L[t].err = "nil"
             /\ \E n \in EntryNames : h.prev[n] # {} )
           => \A n \in h.pre : files[n].e
        /\ (Returned(t) /\ L[t].prev # {})
           => \/ L[t].err \in EarlyErrors
              \/ /\ L[t].err = "nil"
                 /\ L[t].collab = 0
                 /\ \A r \in L[t].prev : Result(L[t]) = r

(* C3, as the claim states it: when Make returns a Cache whose hashes      *)
(* differ from those that wrote the token, no entry file of before is      *)
(* left, the token holds the new hashes, and the first query of an entry   *)
(* that had a file runs the command.                                        *)
C3_FullInvalidation ==
    \A t \in Threads :
        /\ ( /\ pc[t] = "done" /\ L[t].op = "Make" /\ L[t].err = "nil"
             /\ h.preBy # NoHashes /\ L[t].hashes # h.preBy )
           => /\ \A n \in h.pre : ~files[n].e
              /\ files[glopath] = File(TokenText(L[t].hashes[1], L[t].hashes[2]))
        /\ (Returned(t) /\ L[t].stale /\ L[t].err = "nil")
           => L[t].collab = 1

(* C4: PkgSize("unsafe") returns {1, 0} and no error in one step that runs *)
(* no command, no validity check and no entry I/O and leaves the disk and  *)
(* the Cache (both maps) as they are.                                       *)
C4_UnsafeSize ==
    [][\A t \in Threads :
          (L[t].op = "PkgSize" /\ L[t].dir = unsafe /\ pc[t] # "done") =>
              /\ pc[t] = "ps_entry"
              /\ pc'[t] # pc[t] =>
                    /\ pc'[t] = "done"
                    /\ L'[t].err = "nil"
                    /\ L'[t].pi = [Size |-> 1, NumFuncs |-> 0]
                    /\ L'[t].collab = 0 /\ ~L'[t].disk /\ ~L'[t].checked
                    /\ files' = files /\ rootExists' = rootExists
                    /\ c' = c]_vars

C4_Witness ==
    \E t \in Threads :
        /\ Returned(t) /\ L[t].op = "PkgSize" /\ L[t].dir = unsafe
        /\ EntryExists(unsafe, "build")
        /\ io \in DOMAIN c.pkgsizecache

(* C5, as the claim states it: the first query of an entry after           *)
(* WriteCache has written well-formed content to it returns the decoded    *)
(* content and runs no command (unless an early I/O step fails; the size   *)
(* of "unsafe" is left out).                                                *)
C5_SeedThenQuery ==
    \A t \in Threads :
        ( /\ Returned(t) /\ L[t].seed.e
          /\ Decode(L[t].tag, L[t].seed.d).ok
          /\ ~(L[t].op = "PkgSize" /\ L[t].dir = unsafe) )
        => \/ L[t].err \in EarlyErrors
           \/ /\ L[t].err = "nil"
              /\ L[t].collab = 0
              /\ Result(L[t]) = Decode(L[t].tag, L[t].seed.d).res

(* C6: a query that misses in memory and reads an entry file that does not *)
(* decode returns the decode error, runs no command, leaves the file as it *)
(* is and the name out of the map; and the query after one that failed so  *)
(* fails again (with the decode error, unless an early I/O step fails).    *)
C6_CorruptEntry ==
    \A t \in Threads :
        /\ (Returned(t) /\ L[t].valid /\ ~Decode(L[t].tag, L[t].out).ok)
           => /\ L[t].err \in {"unmarshal", "interpreting pksize"}
              /\ L[t].collab = 0
              /\ rootExists /\ files[cachePath(L[t].dir, L[t].tag)] = File(L[t].out)
              /\ ~InMemory(L[t].dir, L[t].tag)
        /\ (Returned(t) /\ L[t].retry = "decode")
           => L[t].err \in EarlyErrors \cup {"unmarshal", "interpreting pksize"}

C6_Witness ==
    \E t \in Threads :
        /\ Returned(t) /\ L[t].valid /\ ~Decode(L[t].tag, L[t].out).ok
        /\ L[t].retry = "decode"

(* C7: a query whose command ("go list", "go build", or the stat and       *)
(* "go tool nm" of the archive) fails returns an error and leaves the name *)
(* out of the map and the entry file absent; and the query after it runs   *)
(* the command again (unless an early I/O step fails).                      *)
C7_CollabFailure ==
    \A t \in Threads :
        /\ (Returned(t) /\ L[t].collabFailed)
           => /\ L[t].err # "nil"
              /\ ~InMemory(L[t].dir, L[t].tag)
              /\ ~EntryExists(L[t].dir, L[t].tag)
        /\ (Returned(t) /\ L[t].retry = "collab")
           => L[t].err \in EarlyErrors \/ L[t].collab = 1

C7_Witness ==
    \E t \in Threads :
        /\ Returned(t) /\ L[t].retry = "collab" /\ L[t].collab = 1
        /\ L[t].err = "nil"

(* C8, as the claim states it: once Make has returned the Cache, and while *)
(* no thread is between the removal of the root and the rewriting of the   *)
(* token, the token file trimmed equals repohash + " " + goroothash.       *)
C8_TokenInvariant ==
    ( /\ live
      /\ \A t \in Threads :
            pc[t] \notin {"cv_mkdir", "wt_open", "wt_write"} )
    => /\ rootExists /\ files[glopath].e
       /\ TrimSpace(files[glopath].d) = WantToken(c.repohash, c.goroothash)

(* C9: a map is read or written only by the thread that holds its mutex;   *)
(* at most one thread is between Lock and Unlock of a mutex; no thread     *)
(* holds both; and no thread holds either while it checks validity, reads  *)
(* or writes a file or runs a command.                                      *)
ListAccess == {"gl_get1", "gl_put2", "gl_put3"}
SizeAccess == {"ps_get1", "ps_put2"}
ListSection == ListAccess \cup {"gl_unlock1", "gl_unlock2", "gl_unlock3"}
SizeSection == SizeAccess \cup {"ps_unlock1", "ps_unlock2"}
Outside ==
    {"cv_read", "cv_rmall", "cv_mkdir", "wt_open", "wt_write", "tc_read",
     "wc_open", "wc_write", "gl_run", "ps_rmarchive", "ps_build", "ps_stat",
     "ps_nm", "ps_remove"}

C9_Locking ==
    /\ \A t \in Threads :
          /\ pc[t] \in ListAccess => c.listcachemu = t
          /\ pc[t] \in SizeAccess => c.pkgsizecachemu = t
          /\ ~(c.listcachemu = t /\ c.pkgsizecachemu = t)
          /\ pc[t] \in Outside => (c.listcachemu # t /\ c.pkgsizecachemu # t)
    /\ Cardinality({t \in Threads : pc[t] \in ListSection}) <= 1
    /\ Cardinality({t \in Threads : pc[t] \in SizeSection}) <= 1

C9_Witness ==
    \E t, u \in Threads :
        /\ c.listcachemu = t /\ pc[t] = "gl_put2"
        /\ pc[u] = "gl_lock2"

(* C10: when the threads have called only one query, of one entry, and all *)
(* calls have returned, the map holds the result of the command for the    *)
(* name and the entry file holds the whole payload of that result.         *)
C10_ConcurrentMisses ==
    (\A t \in Threads : pc[t] \in {"idle", "done"}) =>
        /\ h.calls = {cachePath(io, "list")} =>
              /\ io \in DOMAIN c.listcache
              /\ <<c.listcache[io]>> = ListResult(io)
              /\ rootExists
              /\ files[cachePath(io, "list")] = File(GoListOutput(io))
        /\ h.calls = {cachePath(io, "build")} =>
              /\ io \in DOMAIN c.pkgsizecache
              /\ c.pkgsizecache[io] =
                    [Size |-> StatSize(BuildArchive(io)),
                     NumFuncs |-> CountFuncs(NmOutput(BuildArchive(io)))]
              /\ rootExists
              /\ files[cachePath(io, "build")] = File(SizePayload(io))

(* C11, as the claim states it: when PkgSize has run "go build" and the    *)
(* command has written the archive, the archive file is gone when the call *)
(* returns, whether computePkgInfo and WriteCache succeeded or failed.     *)
C11_ArchiveRemoved ==
    \A t \in Threads :
        ( /\ Returned(t) /\ L[t].op = "PkgSize"
          /\ L[t].collab = 1 /\ L[t].err # "go build" )
        => ~EntryExists(L[t].dir, "archive")

(* C12, as the claim states it: cachePath gives two different names        *)
(* different files, so the entry GoList reads for a name is never one that *)
(* was written for another name: what a call that succeeds from the disk   *)
(* has read is what "go list" prints for the name it was called with.      *)
C12_EntryNamesDistinct ==
    \A t \in Threads :
        (Returned(t) /\ L[t].op = "GoList" /\ L[t].valid /\ L[t].err = "nil")
        => /\ L[t].out = GoListOutput(L[t].dir)
           /\ \A d \in PathDirs \ {L[t].dir} :
                  cachePath(d, L[t].tag) # cachePath(L[t].dir, L[t].tag)

(* The thread is about to read an entry file (line 129) or is writing one  *)
(* (line 144).                                                             *)
AtEntryAccess(t) == pc[t] \in {"tc_read", "wc_open", "wc_write"}

(* C13, as the claim states it: every read and every write of an entry     *)
(* file, in GoList, in PkgSize or in a direct call of WriteCache, comes     *)
(* after a checkValid that the same call has completed.                    *)
C13_CheckBeforeEveryAccess ==
    \A t \in Threads : AtEntryAccess(t) => L[t].checked

(* C13, amended: every read and every write of an entry file that GoList   *)
(* or PkgSize does comes after a checkValid that the same call has         *)
(* completed; a direct call of WriteCache writes the entry file without    *)
(* any validity check.                                                     *)
C13_CheckBeforeQueryAccess ==
    \A t \in Threads :
        AtEntryAccess(t) => (L[t].checked <=> L[t].op \in Queries)

C13_Witness ==
    \E t \in Threads :
        /\ pc[t] = "wc_write" /\ L[t].op = "PkgSize" /\ L[t].checked
        /\ h.seeds > 0

(* C14, as the claim states it: for every pair of hashes, once Make has    *)
(* written the token, no checkValid of a query on that Cache, and none of  *)
(* a Make with the same hashes, finds the token unequal and goes on to     *)
(* remove the root.                                                        *)
C14_StableValidity ==
    \A t \in Threads :
        pc[t] = "cv_rmall" =>
            /\ L[t].op \notin Queries
            /\ L[t].op = "Make" => h.preBy # L[t].hashes

(* What a call that missed everywhere and ran the command leaves behind.   *)
FullMiss(t) ==
    /\ Returned(t) /\ L[t].collab = 1 /\ ~L[t].valid /\ L[t].err = "nil"

BothLayersHold(t) ==
    LET n == cachePath(L[t].dir, L[t].tag)
    IN  /\ InMemory(L[t].dir, L[t].tag)
        /\ L[t].op = "GoList" =>
               /\ c.listcache[L[t].dir] = L[t].cpk
               /\ rootExists /\ files[n] = File(GoListOutput(L[t].dir))
        /\ L[t].op = "PkgSize" =>
               /\ c.pkgsizecache[L[t].dir] = L[t].pi
               /\ rootExists
               /\ files[n] = File(<<Itoa(L[t].pi.Size), " ",
                                    Itoa(L[t].pi.NumFuncs), "\n">>)
               /\ Decode("build", files[n].d).res = Result(L[t])

(* C15, as the claim states it, read at returns during which no other call *)
(* is inside a write of an entry file: at the step where a call that       *)
(* missed in memory and on disk and ran the command returns without error, *)
(* the map holds the returned result for the name and the entry file       *)
(* exists; for GoList it holds the bytes "go list" printed, for PkgSize    *)
(* the two numbers, a blank between them and a newline after them, which   *)
(* decode to the result.                                                   *)
C15_FullMissPopulates ==
    [][ \A t \in Threads :
            ( /\ ~Returned(t) /\ FullMiss(t)'
              /\ \A u \in Threads \ {t} : pc[u] # "wc_write" )
            => BothLayersHold(t)' ]_vars

(* The fields of a size payload: what stands between its blanks and line   *)
(* ends.  The payload is well formed when they are two numbers.            *)
Fields(out) == SelectSeq(out, LAMBDA x : x \notin {" ", "\t", "\n"})

ExactlyTwoInts(out) ==
    /\ Len(Fields(out)) = 2
    /\ \A i \in 1..2 : Fields(out)[i] \in NumTokens

(* C16, as the claim states it: a PkgSize call that read an entry whose    *)
(* content is not exactly two numbers returns the error of the decoding    *)
(* step and leaves the name out of pkgsizecache.                           *)
C16_StrictSizePayload ==
    \A t \in Threads :
        ( /\ Returned(t) /\ L[t].op = "PkgSize"
          /\ L[t].valid /\ ~ExactlyTwoInts(L[t].out) )
        => /\ L[t].err = "interpreting pksize"
           /\ ~InMemory(L[t].dir, "build")

(* C17, as the claim states it: a GoList or PkgSize call that returns an   *)
(* error leaves both maps as they were when it began.  A call that returns *)
(* an error did not find its name in the map when it began, so the name is *)
(* not in the map when it returns.                                         *)
C17_ErrorsLeaveMemory ==
    \A t \in Threads :
        (Returned(t) /\ L[t].err # "nil") => ~InMemory(L[t].dir, L[t].tag)

(* C18, as the claim states it: with "go build" and "go tool nm" working,  *)
(* every PkgSize call of concurrent calls for one package that has to be   *)
(* built returns without error, and all return the size and the function   *)
(* count of the package.                                                   *)
C18_ConcurrentSizeMisses ==
    \A t \in Threads :
        (Returned(t) /\ L[t].op = "PkgSize" /\ L[t].dir # unsafe)
        => /\ L[t].err = "nil"
           /\ Result(L[t]) = Decode("build", SizePayload(L[t].dir)).res

(* What the map of tag holds for dir, as text *)
MemoryValue(dir, tag) ==
    IF tag = "list" THEN <<c.listcache[dir]>>
    ELSE <<Itoa(c.pkgsizecache[dir].Size), Itoa(c.pkgsizecache[dir].NumFuncs)>>

(* C19, as the claim states it, read in the states where no write of an    *)
(* entry file is under way: as long as the program has written no entry    *)
(* itself, whenever a map holds a value for a name and the entry file of   *)
(* the name exists, the file decodes to that value.                        *)
C19_MemoryDiskAgree ==
    (h.seeds = 0 /\ \A t \in Threads : pc[t] # "wc_write") =>
        \A d \in Dirs, tag \in Tags \ {"archive"} :
            (InMemory(d, tag) /\ EntryExists(d, tag))
            => LET r == Decode(tag, files[cachePath(d, tag)].d)
               IN  r.ok /\ r.res = MemoryValue(d, tag)

(* The places where a call waits for listcachemu or pkgsizecachemu *)
ListLockSites == {"gl_lock1", "gl_lock2", "gl_lock3"}
SizeLockSites == {"ps_lock1", "ps_lock2"}

(* C20: with the threads scheduled fairly and every command and I/O step   *)
(* returning, every GoList and PkgSize call returns, with or without an    *)
(* error, so no thread waits for a mutex for ever; and whenever no call is *)
(* under way both mutexes are free.                                        *)
C20_Termination ==
    /\ []( (\A t \in Threads : ~InCall(t))
           => (c.listcachemu = 0 /\ c.pkgsizecachemu = 0) )
    /\ \A t \in Threads : InCall(t) ~> (pc[t] = "done")

(* A thread waits for a mutex the other thread holds, after a step of some *)
(* call has failed.                                                        *)
C20_Witness ==
    \E t \in Threads, u \in Threads :
        /\ t # u
        /\ faults < MaxFaults
        /\ \/ pc[t] \in ListLockSites /\ c.listcachemu = u
           \/ pc[t] \in SizeLockSites /\ c.pkgsizecachemu = u

=============================================================================
